---- MODULE Spec2Model ----
(***************************************************************************)
(* MindMapr (src/MindMapr/main.py): the mind-map canvas (Node, Edge,       *)
(* MindMapCanvas), the application session (MindMapApp) and the per-user   *)
(* map store (maps_index.json plus one body file per map id).              *)
(*                                                                         *)
(* Python objects are modelled by a heap: a Node object is a handle into   *)
(* `heap`, so that two Node objects carrying the same id stay distinct,    *)
(* as they are for Python's `!=` (line 245) and for the in-place updates   *)
(* of `connections`.  A handle that nothing refers to any more is dropped  *)
(* (Collect), as the interpreter frees the object.                         *)
(***************************************************************************)
EXTENDS Integers, Sequences, FiniteSets, TLC

\* ------------------------------------------------------------------ bounds
MaxObj == 3         \* Node objects alive at the same time
MaxNodeUuid == 2    \* distinct uuid4 node ids in use at the same time
MaxEdgeUuid == 2    \* distinct uuid4 edge ids in use at the same time
MaxMapUuid == 1     \* distinct uuid4 map ids in use at the same time
MaxClock == 2       \* seconds the wall clock advances during a session
MaxDocNodes == 2    \* nodes of a document lying outside the workspaces
MaxDocEdges == 2    \* edges of a document lying outside the workspaces

\* ------------------------------------------------------- program constants
NodeWidth == 160    \* Node.__init__: self.width
NodeHeight == 52    \* Node.__init__: self.height
HalfWidth == 80     \* on_double: event.x - 80
HalfHeight == 26    \* on_double: event.y - 26

None == 0           \* Python None where an object or an id is expected
Handles == 1 .. MaxObj
NodeUuids == 1 .. MaxNodeUuid
EdgeUuids == 1 .. MaxEdgeUuid
MapUuids == 1 .. MaxMapUuid
NoUser == "None"    \* Python None where a username is expected
Users == {"u1", "u2"}
Untitled == 900     \* load_map: the title "Untitled"
PlaceholderText == "New Node"

VARIABLES
    heap,           \* handle -> Node object (id, x, y, text, width, height, connections)
    nodes,          \* MindMapCanvas.nodes: node id -> handle
    edges,          \* MindMapCanvas.edges: edge id -> Edge object [a, b] (handles)
    selected_item,  \* MindMapCanvas.selected_item: handle or None
    temp_line,      \* MindMapCanvas.temp_line: "none", "live" (item on canvas), "stale" (id of a deleted item)
    motion,         \* "<Motion>" is bound to follow_mouse
    button1,        \* handler bound to the canvas's "<Button-1>"
    drawn,          \* handles whose rect/text items exist on the canvas
    current_user,   \* MindMapApp.current_user: a username or NoUser
    current_map_id, \* MindMapApp.current_map_id: a map id or None
    current_map_meta, \* MindMapApp.current_map_meta: a dict (None is the empty dict)
    maps_list,      \* MindMapApp.maps_list: the Listbox rows, as map ids
    users,          \* users.json: the registered usernames
    index,          \* per user: maps_index.json (map id -> meta), or NoFile
    bodies,         \* per user: maps/<id>.json (map id -> document)
    files,          \* JSON files outside the workspaces that the open dialog can reach: basename -> document
    clock,          \* the wall clock now_str() reads
    deleted         \* history: the <<user, map id>> pairs Delete was confirmed for

cvars == <<heap, nodes, edges, selected_item, temp_line, motion, button1, drawn>>

\* The canvas as one value, for the handlers that are composed of calls.
Canvas ==
    [heap |-> heap, nodes |-> nodes, edges |-> edges,
     selected_item |-> selected_item, temp_line |-> temp_line,
     motion |-> motion, button1 |-> button1, drawn |-> drawn]

SetCanvasInit ==
    /\ heap = [k \in {} |-> 0]
    /\ nodes = [k \in {} |-> 0]
    /\ edges = [k \in {} |-> 0]
    /\ selected_item = 0
    /\ temp_line = "none"
    /\ motion = FALSE
    /\ button1 = "on_single"
    /\ drawn = {}

SetCanvas(c) ==
    /\ heap' = c.heap
    /\ nodes' = c.nodes
    /\ edges' = c.edges
    /\ selected_item' = c.selected_item
    /\ temp_line' = c.temp_line
    /\ motion' = c.motion
    /\ button1' = c.button1
    /\ drawn' = c.drawn

Min(S) == CHOOSE m \in S : \A k \in S : m <= k

Range(f) == {f[k] : k \in DOMAIN f}

Restrict(f, S) == [k \in S |-> f[k]]

\* f with key k set to v (dict item assignment).
Put(f, k, v) == [j \in DOMAIN f \cup {k} |-> IF j = k THEN v ELSE f[j]]

\* f without key k (del f[k]).
Del(f, k) == [j \in DOMAIN f \ {k} |-> f[j]]

EmptyMap == [k \in {} |-> 0]

\* Node objects something still refers to: the nodes dict, an Edge's a/b,
\* selected_item, or canvas item bindings (a drawn rectangle keeps its
\* bound methods, hence the object, alive).
Reachable(c) ==
    Range(c.nodes) \cup {c.edges[e].a : e \in DOMAIN c.edges}
        \cup {c.edges[e].b : e \in DOMAIN c.edges}
        \cup (IF c.selected_item = None THEN {} ELSE {c.selected_item})
        \cup c.drawn

Collect(c) == [c EXCEPT !.heap = Restrict(c.heap, Reachable(c) \cap DOMAIN c.heap)]

avars == <<current_user, current_map_id, current_map_meta, maps_list>>
svars == <<users, index, bodies, files>>
vars == <<cvars, avars, svars, clock, deleted>>

\* ------------------------------------------------------------- uuid4
\* uuid.uuid4() never returns an id that exists anywhere: the model draws
\* the least id that no object, no document on disk and no document
\* being loaded holds.
DocNodeIds(d) == {d.nodes[i].id : i \in DOMAIN d.nodes}
    \cup {d.edges[i].a : i \in DOMAIN d.edges}
    \cup {d.edges[i].b : i \in DOMAIN d.edges}

DocEdgeIds(d) == {d.edges[i].id : i \in DOMAIN d.edges}

StoredDocs == UNION {Range(bodies[u]) : u \in DOMAIN bodies}

UsedNodeIds(c, doc) ==
    {c.heap[h].id : h \in DOMAIN c.heap} \cup DOMAIN c.nodes \cup DocNodeIds(doc)
        \cup UNION {DocNodeIds(d) : d \in StoredDocs}

UsedEdgeIds(c, doc) ==
    DOMAIN c.edges \cup UNION {c.heap[h].connections : h \in DOMAIN c.heap}
        \cup DocEdgeIds(doc) \cup UNION {DocEdgeIds(d) : d \in StoredDocs}

EmptyDoc == [nodes |-> <<>>, edges |-> <<>>]

\* ------------------------------------------------------------- Node
\* Node.__init__ (lines 100-124): a new object with its rectangle and text
\* drawn; `nid or str(uuid.uuid4())`.  Yields the canvas and the handle.
NodeInit(c, x, y, text, nid, doc) ==
    LET h == Min(Handles \ DOMAIN c.heap)
        id == IF nid # None THEN nid ELSE Min(NodeUuids \ UsedNodeIds(c, doc))
        n == [id |-> id, x |-> x, y |-> y, text |-> text,
              width |-> NodeWidth, height |-> NodeHeight, connections |-> {}]
    IN  [c |-> [c EXCEPT !.heap = Put(c.heap, h, n), !.drawn = c.drawn \cup {h}],
         h |-> h]

CanNodeInit(c, nid, doc) ==
    /\ Handles \ DOMAIN c.heap # {}
    /\ nid = None => NodeUuids \ UsedNodeIds(c, doc) # {}

\* Node.on_click (lines 126-135).
NodeOnClick(c, h) ==
    [c EXCEPT !.selected_item = h,
              !.temp_line = "none"]

\* Node.on_right_click (lines 137-142), the dialog confirmed with `new`.
NodeOnRightClick(c, h, new) ==
    [c EXCEPT !.heap[h].text = new]

\* on_drag storing the new ordinate in self.height instead of self.y.
NodeOnDrag_height(c, h, ex, ey) ==
    [c EXCEPT !.heap[h].x = ex - (c.heap[h].width \div 2),
              !.heap[h].height = ey - (c.heap[h].height \div 2)]

\* Node.on_drag (lines 144-154): event.x - self.width / 2.
NodeOnDrag(c, h, ex, ey) ==
    [c EXCEPT !.heap[h].x = ex - (c.heap[h].width \div 2),
              !.heap[h].y = ey - (c.heap[h].height \div 2)]

\* Node.serialize (lines 156-164).
NodeSerialize(n) ==
    [id |-> n.id, x |-> n.x, y |-> n.y, text |-> n.text,
     width |-> n.width, height |-> n.height]

\* ------------------------------------------------------------- Edge
\* Edge.__init__ (lines 167-176): `eid or str(uuid.uuid4())`; the id is
\* added to both endpoints' connections.  Yields the canvas and the Edge.
EdgeInit(c, a, b, eid, doc) ==
    LET id == IF eid # None THEN eid ELSE Min(EdgeUuids \ UsedEdgeIds(c, doc))
        h1 == [c.heap EXCEPT ![a].connections = @ \cup {id}]
        h2 == [h1 EXCEPT ![b].connections = @ \cup {id}]
    IN  [c |-> [c EXCEPT !.heap = h2], e |-> [id |-> id, a |-> a, b |-> b]]

CanEdgeInit(c, eid, doc) == eid = None => EdgeUuids \ UsedEdgeIds(c, doc) # {}

\* Edge.serialize (lines 186-187).
EdgeSerialize(c, id) ==
    [id |-> id, a |-> c.heap[c.edges[id].a].id, b |-> c.heap[c.edges[id].b].id]

\* ------------------------------------------------------- MindMapCanvas
\* MindMapCanvas.__init__ (lines 193-204).
CanvasInit ==
    [heap |-> EmptyMap, nodes |-> EmptyMap, edges |-> EmptyMap,
     selected_item |-> None, temp_line |-> "none",
     motion |-> FALSE, button1 |-> "on_single", drawn |-> {}]

\* MindMapCanvas.on_double (lines 206-209).
on_double(c, ex, ey) ==
    LET r == NodeInit(c, ex - HalfWidth, ey - HalfHeight, PlaceholderText, None, EmptyDoc)
    IN  [r.c EXCEPT !.nodes = Put(r.c.nodes, r.c.heap[r.h].id, r.h)]

\* on_single with the test of line 214 turned round: the selection is
\* dropped when an item is under the pointer and kept when none is.
on_single_clicked(c, clicked) ==
    IF clicked THEN [c EXCEPT !.selected_item = None] ELSE c

\* MindMapCanvas.on_single (lines 211-215); `clicked` is whether an item
\* is under the pointer (find_withtag("current")).
on_single(c, clicked) ==
    IF ~clicked THEN [c EXCEPT !.selected_item = None] ELSE c

\* MindMapCanvas.start_connection (lines 217-223).
start_connection(c) ==
    IF c.selected_item = None
    THEN c
    ELSE [c EXCEPT !.motion = TRUE, !.button1 = "finish_connection"]

\* MindMapCanvas.follow_mouse (lines 225-233).  With no selected_item line
\* 231 raises after the old line was deleted: temp_line keeps the id of
\* the deleted item.
follow_mouse(c) ==
    IF c.selected_item = None
    THEN [c EXCEPT !.temp_line = IF @ = "none" THEN "none" ELSE "stale"]
    ELSE [c EXCEPT !.temp_line = "live"]

\* The end of finish_connection without lines 251-256: the provisional
\* line is left on the canvas.
finish_cleanup_keep_line(c) ==
    [c EXCEPT !.motion = FALSE, !.button1 = "on_single"]

\* Lines 251-258 of finish_connection.
finish_cleanup(c) ==
    [c EXCEPT !.temp_line = "none", !.motion = FALSE, !.button1 = "on_single"]

\* MindMapCanvas.finish_connection (lines 235-258); `target` is the node of
\* self.nodes found under the pointer, or None.  With no selected_item,
\* Edge.__init__ raises at line 172 (center(None)) before anything changed,
\* and the handler ends there.
finish_connection(c, target) ==
    IF target # None /\ target # c.selected_item
    THEN IF c.selected_item = None
         THEN c
         ELSE LET r == EdgeInit(c, c.selected_item, target, None, EmptyDoc)
              IN  finish_cleanup([r.c EXCEPT !.edges = Put(r.c.edges, r.e.id, r.e)])
    ELSE finish_cleanup(c)

CanFinishConnection(c, target) ==
    (target # None /\ target # c.selected_item /\ c.selected_item # None)
        => CanEdgeInit(c, None, EmptyDoc)

\* MindMapCanvas.delete_edge (lines 277-289).
delete_edge(c, eid) ==
    IF eid \notin DOMAIN c.edges
    THEN c
    ELSE LET e == c.edges[eid]
             h1 == [c.heap EXCEPT ![e.a].connections = @ \ {eid}]
             h2 == [h1 EXCEPT ![e.b].connections = @ \ {eid}]
         IN  [c EXCEPT !.heap = h2, !.edges = Del(c.edges, eid)]

\* The loop of delete_node leaving after its first edge.
delete_edges_first(c, eids) ==
    IF eids = {} THEN c ELSE delete_edge(c, Min(eids))

\* The loop of delete_node (lines 266-267) over list(node.connections).
RECURSIVE delete_edges(_, _)
delete_edges(c, eids) ==
    IF eids = {}
    THEN c
    ELSE LET eid == Min(eids)
         IN  delete_edges(delete_edge(c, eid), eids \ {eid})

\* MindMapCanvas.delete_node (lines 265-275).
delete_node(c, h) ==
    LET c1 == delete_edges(c, c.heap[h].connections)
        c2 == [c1 EXCEPT !.drawn = @ \ {h}]
        id == c.heap[h].id
    IN  IF id \in DOMAIN c2.nodes THEN [c2 EXCEPT !.nodes = Del(c2.nodes, id)] ELSE c2

\* MindMapCanvas.on_delete_key (lines 291-294).
on_delete_key(c) ==
    IF c.selected_item # None
    THEN [delete_node(c, c.selected_item) EXCEPT !.selected_item = None]
    ELSE c

\* A set of numbers as the sequence of its elements, ascending.
RECURSIVE SortedSeq(_)
SortedSeq(S) ==
    IF S = {} THEN <<>> ELSE <<Min(S)>> \o SortedSeq(S \ {Min(S)})

\* MindMapCanvas.serialize (lines 296-298).  A dict keeps insertion order;
\* the model lists by ascending id, the order only matters to a reader
\* that meets a repeated id, and serialize emits none.
serialize(c) ==
    LET nk == SortedSeq(DOMAIN c.nodes)
        ek == SortedSeq(DOMAIN c.edges)
    IN  [nodes |-> [i \in DOMAIN nk |-> NodeSerialize(c.heap[c.nodes[nk[i]]])],
         edges |-> [i \in DOMAIN ek |-> EdgeSerialize(c, ek[i])]]

\* MindMapCanvas.clear (lines 300-313).
clear(c) ==
    [c EXCEPT !.drawn = @ \ Range(c.nodes), !.nodes = EmptyMap, !.edges = EmptyMap]

\* The node loop of load_from (lines 319-330); yields the canvas and id_map.
RECURSIVE load_nodes(_, _, _, _)
load_nodes(c, id_map, data, i) ==
    IF i > Len(data.nodes)
    THEN [c |-> c, id_map |-> id_map]
    ELSE LET nd == data.nodes[i]
             r == NodeInit(c, nd.x, nd.y, nd.text, nd.id, data)
             n == [r.c.heap[r.h] EXCEPT !.width = nd.width, !.height = nd.height]
             c1 == [r.c EXCEPT !.heap[r.h] = n, !.nodes = Put(r.c.nodes, n.id, r.h)]
         IN  load_nodes(c1, Put(id_map, n.id, r.h), data, i + 1)

\* The edge loop with `break` where the code skips an edge that does not
\* resolve: the edges listed after it are lost.
RECURSIVE load_edges_break(_, _, _, _)
load_edges_break(c, id_map, data, i) ==
    IF i > Len(data.edges)
    THEN c
    ELSE LET ed == data.edges[i]
             a == IF ed.a \in DOMAIN id_map THEN id_map[ed.a] ELSE None
             b == IF ed.b \in DOMAIN id_map THEN id_map[ed.b] ELSE None
         IN  IF a # None /\ b # None
             THEN LET r == EdgeInit(c, a, b, ed.id, data)
                  IN  load_edges_break([r.c EXCEPT !.edges = Put(r.c.edges, r.e.id, r.e)],
                                       id_map, data, i + 1)
             ELSE c

\* The edge loop of load_from (lines 332-337).
RECURSIVE load_edges(_, _, _, _)
load_edges(c, id_map, data, i) ==
    IF i > Len(data.edges)
    THEN c
    ELSE LET ed == data.edges[i]
             a == IF ed.a \in DOMAIN id_map THEN id_map[ed.a] ELSE None
             b == IF ed.b \in DOMAIN id_map THEN id_map[ed.b] ELSE None
         IN  IF a # None /\ b # None
             THEN LET r == EdgeInit(c, a, b, ed.id, data)
                  IN  load_edges([r.c EXCEPT !.edges = Put(r.c.edges, r.e.id, r.e)],
                                 id_map, data, i + 1)
             ELSE load_edges(c, id_map, data, i + 1)

\* MindMapCanvas.load_from (lines 315-337).
load_from(c, data) ==
    LET r == load_nodes(Collect(clear(c)), EmptyMap, data, 1)
    IN  load_edges(r.c, r.id_map, data, 1)

\* ------------------------------------------------------------ the store
\* A JSON object on disk keeps its key order: an index is a sequence of
\* <<map id, meta>> pairs, a meta a function on a subset of
\* {"title", "created", "modified"}.
Keys(d) == {d[i][1] : i \in DOMAIN d}

Get(d, k) == d[CHOOSE i \in DOMAIN d : d[i][1] = k][2]

\* d[k] = v: an existing key keeps its place, a new one goes last.
Set(d, k, v) ==
    IF k \in Keys(d)
    THEN [i \in DOMAIN d |-> IF d[i][1] = k THEN <<k, v>> ELSE d[i]]
    ELSE Append(d, <<k, v>>)

\* del d[k]
Remove(d, k) == SelectSeq(d, LAMBDA p : p[1] # k)

NoFile == [exists |-> FALSE, maps |-> <<>>]

\* ensure_user_folders writing the empty index without looking for the file.
ensure_user_folders_rewrite(idx, username) ==
    [idx EXCEPT ![username] = [exists |-> TRUE, maps |-> <<>>]]

\* ensure_user_folders (lines 55-60).
ensure_user_folders(idx, username) ==
    IF idx[username].exists
    THEN idx
    ELSE [idx EXCEPT ![username] = [exists |-> TRUE, maps |-> <<>>]]

\* load_user_maps_index (lines 62-70).
load_user_maps_index(idx, username) ==
    IF idx[username].exists THEN idx[username].maps ELSE <<>>

\* save_user_maps_index (lines 72-75).
save_user_maps_index(idx, username, index_data) ==
    [idx EXCEPT ![username] = [exists |-> TRUE, maps |-> index_data]]

\* save_map_file (lines 77-82), the body part; its ensure_user_folders is
\* applied to the index by the caller.
save_map_file(bod, username, map_id, data) ==
    [bod EXCEPT ![username] = Put(@, map_id, data)]

\* delete_map_file (lines 91-94).
delete_map_file(bod, username, map_id) ==
    IF map_id \in DOMAIN bod[username]
    THEN [bod EXCEPT ![username] = Del(@, map_id)]
    ELSE bod

\* meta.get("modified", "") of refresh_maps_list: "" sorts below every timestamp.
ModifiedKey(meta) == IF "modified" \in DOMAIN meta THEN meta["modified"] ELSE -1

\* sorted(idx.items(), key=modified, reverse=True) (line 569): stable, so
\* rows with equal keys keep the index's order.
RECURSIVE SortedItems(_)
SortedItems(d) ==
    IF d = <<>>
    THEN <<>>
    ELSE LET best == CHOOSE i \in DOMAIN d :
                        /\ \A j \in DOMAIN d : ModifiedKey(d[j][2]) <= ModifiedKey(d[i][2])
                        /\ \A j \in 1 .. (i - 1) : ModifiedKey(d[j][2]) < ModifiedKey(d[i][2])
             rest == [j \in 1 .. (Len(d) - 1) |-> IF j < best THEN d[j] ELSE d[j + 1]]
         IN  <<d[best]>> \o SortedItems(rest)

\* refresh_maps_list listing idx.items() as they come, the sort left out.
refresh_maps_list_unsorted(idx, user) ==
    IF user = NoUser
    THEN <<>>
    ELSE LET items == load_user_maps_index(idx, user)
         IN  [i \in DOMAIN items |-> items[i][1]]

\* refresh_maps_list (lines 563-573): the rows, each known by its map id.
refresh_maps_list(idx, user) ==
    IF user = NoUser
    THEN <<>>
    ELSE LET items == SortedItems(load_user_maps_index(idx, user))
         IN  [i \in DOMAIN items |-> items[i][1]]

\* A map id from uuid4: the least id no index, body, list row or session holds.
UsedMapIds ==
    UNION {Keys(index[u].maps) : u \in Users} \cup UNION {DOMAIN bodies[u] : u \in Users}
        \cup Range(maps_list) \cup {current_map_id} \cup {p[2] : p \in deleted}

NoMeta == EmptyMap

\* ------------------------------------------------- Tk event dispatch
\* A Button-1 press at a point of the canvas.  `target` is the node whose
\* rectangle or text is under the pointer (None on empty surface), `onLine`
\* whether an edge line lies on top of it there.  Tk hands the press to the
\* bindings of the topmost item under the pointer (tag_bind, lines 117-118),
\* then to the canvas's own "<Button-1>" binding (lines 202, 222, 258).  The
\* provisional line ends at the pointer (line 233) and is the newest item,
\* so while it is on the canvas it is that topmost item and no node's
\* on_click runs; find_overlapping (line 236) still sees the node below.
Shielded(c, onLine) == c.temp_line = "live" \/ onLine

press(c, target, onLine) ==
    LET c1 == IF target # None /\ ~Shielded(c, onLine) THEN NodeOnClick(c, target) ELSE c
    IN  IF c1.button1 = "on_single"
        THEN on_single(c1, target # None \/ Shielded(c, onLine))
        ELSE finish_connection(c1, IF target \in Range(c1.nodes) THEN target ELSE None)

CanPress(c, target, onLine) ==
    /\ target \in c.drawn \cup {None}
    /\ onLine => DOMAIN c.edges # {}
    /\ c.button1 = "finish_connection" =>
        LET c1 == IF target # None /\ ~Shielded(c, onLine) THEN NodeOnClick(c, target) ELSE c
        IN  CanFinishConnection(c1, IF target \in Range(c1.nodes) THEN target ELSE None)

\* The second press of a double click: the item binding again (an item has
\* no "<Double-Button-1>" binding, so its "<Button-1>" one matches), then the
\* canvas's "<Double-Button-1>" binding (line 201), which outranks "<Button-1>".
double_press(c, target, onLine, ex, ey) ==
    LET c1 == IF target # None /\ ~Shielded(c, onLine) THEN NodeOnClick(c, target) ELSE c
    IN  on_double(c1, ex, ey)

\* Pointer positions of the events, as (event.x, event.y).
Points == {<<90, 36>>, <<280, 36>>}
Texts == {PlaceholderText, "idea"}

\* ------------------------------------------------------ canvas events
\* Left click on a node or on empty surface.
Click(target, onLine) ==
    /\ CanPress(Canvas, target, onLine)
    /\ SetCanvas(Collect(press(Canvas, target, onLine)))
    /\ UNCHANGED <<avars, svars, clock, deleted>>

\* Double click: the first press is an ordinary click, the second creates
\* the node.
DoubleClick(target, onLine, p) ==
    /\ CanPress(Canvas, target, onLine)
    /\ LET c1 == press(Canvas, target, onLine)
           line2 == onLine /\ DOMAIN c1.edges # {}
       IN  /\ CanNodeInit(c1, None, EmptyDoc)
           /\ SetCanvas(Collect(double_press(c1, target, line2, p[1], p[2])))
    /\ UNCHANGED <<avars, svars, clock, deleted>>

\* MindMapApp.canvas_start_connection (lines 690-694).
canvas_start_connection(c) ==
    IF c.selected_item = None THEN c ELSE start_connection(c)

\* The Start Connection command.
StartConnection ==
    /\ SetCanvas(canvas_start_connection(Canvas))
    /\ UNCHANGED <<avars, svars, clock, deleted>>

\* Pointer motion over the canvas while "<Motion>" is bound.
Motion ==
    /\ motion
    /\ SetCanvas(follow_mouse(Canvas))
    /\ UNCHANGED <<avars, svars, clock, deleted>>

\* The Delete key (line 203).
DeleteKey ==
    /\ SetCanvas(Collect(on_delete_key(Canvas)))
    /\ UNCHANGED <<avars, svars, clock, deleted>>

\* MindMapApp.delete_selected_node (lines 696-701).
delete_selected_node(c) ==
    IF c.selected_item = None
    THEN c
    ELSE [delete_node(c, c.selected_item) EXCEPT !.selected_item = None]

\* The Delete Selected Node command.
DeleteSelectedNode ==
    /\ SetCanvas(Collect(delete_selected_node(Canvas)))
    /\ UNCHANGED <<avars, svars, clock, deleted>>

\* B1-Motion on a node's item: it follows the press that made the node the
\* current item, whose on_click selected the node and ended any connection.
Drag(h, p) ==
    /\ h \in drawn
    /\ selected_item = h
    /\ button1 = "on_single"
    /\ SetCanvas(NodeOnDrag(Canvas, h, p[1], p[2]))
    /\ UNCHANGED <<avars, svars, clock, deleted>>

\* Button-3 on a node's item, the dialog confirmed.
RightClick(h, new) ==
    /\ h \in drawn
    /\ temp_line # "live"
    /\ SetCanvas(NodeOnRightClick(Canvas, h, new))
    /\ UNCHANGED <<avars, svars, clock, deleted>>

\* ------------------------------------------------------- MindMapApp
Titles == {901, 902}    \* titles typed into the title dialogs

\* MindMapApp.login_user (lines 538-545), reached from show_login (lines
\* 530-536) after LoginDialog.do_login (lines 370-379, the user exists and
\* the password matches) or do_register (lines 381-395, a new username).
login_user(username, idx) ==
    /\ current_user' = username
    /\ index' = ensure_user_folders(idx, username)
    /\ maps_list' = refresh_maps_list(ensure_user_folders(idx, username), username)
    /\ UNCHANGED <<cvars, current_map_id, current_map_meta, bodies, files, clock, deleted>>

Login(username) ==
    /\ username \in users
    /\ users' = users
    /\ login_user(username, index)

Register(username) ==
    /\ username \notin users
    /\ users' = users \cup {username}
    /\ login_user(username, ensure_user_folders(index, username))

\* logout_user without line 555: the rows of the account stay in the list.
Logout_keep_rows ==
    /\ current_user # NoUser
    /\ current_user' = NoUser
    /\ current_map_id' = None
    /\ SetCanvas(Collect(clear(Canvas)))
    /\ UNCHANGED <<maps_list, current_map_meta, svars, clock, deleted>>

\* MindMapApp.logout_user (lines 547-558).
Logout ==
    /\ current_user # NoUser
    /\ current_user' = NoUser
    /\ current_map_id' = None
    /\ maps_list' = <<>>
    /\ SetCanvas(Collect(clear(Canvas)))
    /\ UNCHANGED <<current_map_meta, svars, clock, deleted>>

\* MindMapApp.new_map_for_user (lines 575-591), the title dialog confirmed.
NewMap(title) ==
    /\ current_user # NoUser
    /\ MapUuids \ UsedMapIds # {}
    /\ LET id == Min(MapUuids \ UsedMapIds)
           meta == [title |-> title, created |-> clock, modified |-> clock]
           idx == Set(load_user_maps_index(index, current_user), id, meta)
           saved == save_user_maps_index(index, current_user, idx)
       IN  /\ SetCanvas(Collect(clear(Canvas)))
           /\ current_map_id' = id
           /\ current_map_meta' = meta
           /\ index' = saved
           /\ maps_list' = refresh_maps_list(saved, current_user)
    /\ UNCHANGED <<current_user, users, bodies, files, clock, deleted>>

\* load_map_file (lines 84-89): the document, or None.
HasMapFile(username, map_id) == map_id \in DOMAIN bodies[username]

\* load_map taking the id as current before it looks for the body.
load_map_id_first(map_id) ==
    IF ~HasMapFile(current_user, map_id)
    THEN /\ current_map_id' = map_id
         /\ UNCHANGED <<cvars, current_user, current_map_meta, maps_list, svars, clock, deleted>>
    ELSE LET data == bodies[current_user][map_id]
             idx == load_user_maps_index(index, current_user)
         IN  /\ SetCanvas(Collect(load_from(Canvas, data)))
             /\ current_map_id' = map_id
             /\ current_map_meta' = IF map_id \in Keys(idx) THEN Get(idx, map_id)
                                    ELSE [title |-> Untitled]
             /\ UNCHANGED <<current_user, maps_list, svars, clock, deleted>>

\* MindMapApp.load_map (lines 601-614).
load_map(map_id) ==
    IF ~HasMapFile(current_user, map_id)
    THEN UNCHANGED vars
    ELSE LET data == bodies[current_user][map_id]
             idx == load_user_maps_index(index, current_user)
         IN  /\ SetCanvas(Collect(load_from(Canvas, data)))
             /\ current_map_id' = map_id
             /\ current_map_meta' = IF map_id \in Keys(idx) THEN Get(idx, map_id)
                                    ELSE [title |-> Untitled]
             /\ UNCHANGED <<current_user, maps_list, svars, clock, deleted>>

\* What load_from needs of the model's bounds: an object for every node of
\* the document, a uuid for every id the document leaves out.
CanLoadFrom(c, data) ==
    LET c0 == Collect(clear(c))
        noNid == {i \in DOMAIN data.nodes : data.nodes[i].id = None}
        noEid == {i \in DOMAIN data.edges : data.edges[i].id = None}
    IN  /\ Cardinality(Handles \ DOMAIN c0.heap) >= Len(data.nodes)
        /\ Cardinality(NodeUuids \ UsedNodeIds(c0, data)) >= Cardinality(noNid)
        /\ Cardinality(EdgeUuids \ UsedEdgeIds(c0, data)) >= Cardinality(noEid)

\* MindMapApp.open_selected_map (lines 593-599): a double click on a row.
OpenSelectedMap(row) ==
    /\ row \in DOMAIN maps_list
    /\ current_user # NoUser
    /\ HasMapFile(current_user, maps_list[row]) =>
            CanLoadFrom(Canvas, bodies[current_user][maps_list[row]])
    /\ load_map(maps_list[row])

\* MindMapApp.delete_selected_map (lines 616-630), the question answered yes.
DeleteSelectedMap(row) ==
    /\ row \in DOMAIN maps_list
    /\ LET mid == maps_list[row]
           idx == load_user_maps_index(index, current_user)
           saved == IF mid \in Keys(idx)
                    THEN save_user_maps_index(index, current_user, Remove(idx, mid))
                    ELSE index
       IN  /\ bodies' = delete_map_file(bodies, current_user, mid)
           /\ index' = saved
           /\ maps_list' = refresh_maps_list(saved, current_user)
           /\ deleted' = deleted \cup {<<current_user, mid>>}
    /\ UNCHANGED <<cvars, current_user, current_map_id, current_map_meta, users, files, clock>>

\* The JSON documents the file dialog of open_map_dialog can reach, as
\* <<basename, document>>: the bodies of every workspace under data/, and
\* the files elsewhere.
Openable ==
    UNION {{<<id, bodies[u][id]>> : id \in DOMAIN bodies[u]} : u \in Users}
        \cup {<<name, files[name]>> : name \in DOMAIN files}

\* MindMapApp.open_map_dialog (lines 635-657), a file chosen.
OpenMapDialog(mid, data) ==
    /\ current_user # NoUser
    /\ CanLoadFrom(Canvas, data)
    /\ LET idx == load_user_maps_index(index, current_user)
           saved == IF mid \notin Keys(idx)
                    THEN save_user_maps_index(index, current_user,
                            Set(idx, mid, [title |-> mid, created |-> clock, modified |-> clock]))
                    ELSE index
       IN  /\ SetCanvas(Collect(load_from(Canvas, data)))
           /\ current_map_id' = mid
           /\ index' = saved
           /\ maps_list' = refresh_maps_list(saved, current_user)
    /\ UNCHANGED <<current_user, current_map_meta, users, bodies, files, clock, deleted>>

\* MindMapApp.save_map (lines 662-685); `title` answers the dialog of a
\* first save.  The id the save writes under (lines 666-671).
save_map_id == IF current_map_id = None THEN Min(MapUuids \ UsedMapIds) ELSE current_map_id

\* The dict save_map takes as meta (line 677): current_map_meta, set at
\* line 672 on a first save.
save_map_held(title) ==
    IF current_map_id = None
    THEN [title |-> title, created |-> clock, modified |-> clock]
    ELSE current_map_meta

\* The index entry of the save (lines 677-681).
save_map_meta(title) ==
    LET m1 == Put(save_map_held(title), "modified", clock)
    IN  IF "created" \notin DOMAIN m1 THEN Put(m1, "created", clock) ELSE m1

\* A file that open(path, "w") has truncated and json.dump has not yet
\* filled: a body that is no document, an index that load_user_maps_index
\* reads as {} (lines 69-70).
TruncatedBody == [truncated |-> TRUE]
TruncatedIndex == [exists |-> TRUE, maps |-> <<>>]

\* save_map writing the index entry (lines 676-682) before the body (line
\* 674).
save_map_writes_index_first(title) ==
    LET id == save_map_id
        p0 == [index |-> index, bodies |-> bodies]
        p1 == [p0 EXCEPT !.index[current_user] = TruncatedIndex]
        p2 == [p0 EXCEPT !.index = save_user_maps_index(index, current_user,
                    Set(load_user_maps_index(index, current_user), id, save_map_meta(title)))]
        p3 == [p2 EXCEPT !.index = ensure_user_folders(p2.index, current_user)]
        p4 == [p3 EXCEPT !.bodies = save_map_file(bodies, current_user, id, TruncatedBody)]
        p5 == [p3 EXCEPT !.bodies = save_map_file(bodies, current_user, id, serialize(Canvas))]
    IN  <<p0, p1, p2, p3, p4, p5>>

\* The store at the points of a save where the disk differs: before the
\* save, after the ensure_user_folders of save_map_file (line 78), with the
\* body file opened (line 80) and written (line 81), with the index file
\* opened (line 74) and written (line 75).
save_map_writes(title) ==
    LET id == save_map_id
        p0 == [index |-> index, bodies |-> bodies]
        p1 == [p0 EXCEPT !.index = ensure_user_folders(index, current_user)]
        p2 == [p1 EXCEPT !.bodies = save_map_file(bodies, current_user, id, TruncatedBody)]
        p3 == [p1 EXCEPT !.bodies = save_map_file(bodies, current_user, id, serialize(Canvas))]
        p4 == [p3 EXCEPT !.index[current_user] = TruncatedIndex]
        p5 == [p3 EXCEPT !.index = save_user_maps_index(p3.index, current_user,
                    Set(load_user_maps_index(p3.index, current_user), id, save_map_meta(title)))]
    IN  <<p0, p1, p2, p3, p4, p5>>

SaveMap(title) ==
    /\ current_user # NoUser
    /\ current_map_id = None => MapUuids \ UsedMapIds # {}
    /\ LET held == save_map_held(title)
           w == save_map_writes(title)
           done == w[Len(w)]
       IN  /\ current_map_id' = save_map_id
           /\ current_map_meta' = IF DOMAIN held = {} THEN held ELSE save_map_meta(title)
           /\ bodies' = done.bodies
           /\ index' = done.index
           /\ maps_list' = refresh_maps_list(done.index, current_user)
    /\ UNCHANGED <<cvars, current_user, users, files, clock, deleted>>

\* A second passes.
Tick ==
    /\ clock < MaxClock
    /\ clock' = clock + 1
    /\ UNCHANGED <<cvars, avars, svars, deleted>>

\* ------------------------------------------------------ specifications
\* Documents lying outside the workspaces, by basename.
Doc(ns, es) == [nodes |-> ns, edges |-> es]
DocNode(id, x) ==
    [id |-> id, x |-> x, y |-> 10, text |-> "idea", width |-> NodeWidth, height |-> NodeHeight]
DocEdge(id, a, b) == [id |-> id, a |-> a, b |-> b]

SeqsUpTo(S, n) == UNION {[1 .. k -> S] : k \in 0 .. n}

\* Documents as a file may hold them: node ids that repeat or are missing,
\* edges whose ends name the same node or a node the document lacks (103
\* always, 102 when only 101 is listed), edge ids that repeat or are missing.
DocNodes == {DocNode(101, 10), DocNode(102, 200), DocNode(101, 200), DocNode(None, 10)}
DocEdges == {DocEdge(id, 101, b) : id \in {201, 202, None}, b \in {101, 102, 103}}
Docs == {Doc(ns, es) : ns \in SeqsUpTo(DocNodes, MaxDocNodes), es \in SeqsUpTo(DocEdges, MaxDocEdges)}
DocName == 301

\* MindMapApp.__init__ (lines 404-477) on a first start: nobody registered.
InitWith(f) ==
    /\ SetCanvasInit
    /\ current_user = NoUser
    /\ current_map_id = None
    /\ current_map_meta = NoMeta
    /\ maps_list = <<>>
    /\ users = {}
    /\ index = [u \in Users |-> NoFile]
    /\ bodies = [u \in Users |-> EmptyMap]
    /\ files = f
    /\ clock = 0
    /\ deleted = {}

\* The editor session of one account, no document lying around: every
\* canvas event, and the commands that clear the canvas.
Init == InitWith(EmptyMap)

CanvasNext(points, texts) ==
    \/ \E t \in drawn \cup {None}, l \in BOOLEAN : Click(t, l)
    \/ \E t \in drawn \cup {None}, l \in BOOLEAN, p \in points : DoubleClick(t, l, p)
    \/ StartConnection
    \/ Motion
    \/ DeleteKey
    \/ DeleteSelectedNode
    \/ \E h \in drawn, p \in points : Drag(h, p)
    \/ \E h \in drawn, t \in texts : RightClick(h, t)

Next ==
    \/ CanvasNext({<<90, 36>>}, {PlaceholderText})
    \/ Login("u1")
    \/ Register("u1")
    \/ Logout
    \/ NewMap(901)

Spec == Init /\ [][Next]_vars

\* Opening one document, whatever it holds, from a file named 301.json.
InitLoad == \E d \in Docs : InitWith(DocName :> d)

NextLoad ==
    \/ Register("u1")
    \/ \E f \in Openable : OpenMapDialog(f[1], f[2])

SpecLoad == InitLoad /\ [][NextLoad]_vars

\* One account that opens a document from a file, selects, connects and
\* deletes in it, and opens it again.
ExtFiles ==
    DocName :> Doc(<<DocNode(101, 10), DocNode(102, 200)>>, <<DocEdge(201, 101, 102)>>)

InitOpen == InitWith(ExtFiles)

NextOpen ==
    \/ \E t \in drawn \cup {None}, l \in BOOLEAN : Click(t, l)
    \/ StartConnection
    \/ Motion
    \/ DeleteKey
    \/ DeleteSelectedNode
    \/ Register("u1")
    \/ \E f \in Openable : OpenMapDialog(f[1], f[2])

SpecOpen == InitOpen /\ [][NextOpen]_vars

\* Two accounts and their stores: registration, login and logout, New Map,
\* Save, open from the list and Delete, with a diagram of at most one node.
NextStore ==
    \/ DOMAIN nodes = {} /\ DoubleClick(None, FALSE, <<90, 36>>)
    \/ \E u \in Users : Login(u)
    \/ \E u \in Users : Register(u)
    \/ Logout
    \/ NewMap(901)
    \/ SaveMap(901)
    \/ \E r \in DOMAIN maps_list : OpenSelectedMap(r)
    \/ \E r \in DOMAIN maps_list : DeleteSelectedMap(r)

SpecStore == Init /\ [][NextStore]_vars

\* ------------------------------------------------------------- claims
NodeOf(id) == heap[nodes[id]]

\* The edges of the mapping that have the object h as an endpoint.
IncidentEdges(h) == {e \in DOMAIN edges : edges[e].a = h \/ edges[e].b = h}

\* The ids serialize() emits in its node list.
EmittedNodeIds(d) == {d.nodes[i].id : i \in DOMAIN d.nodes}

\* C1: in every reachable state both endpoints of every edge of the edges
\* mapping are Node objects held in the nodes mapping, and serialize() emits
\* no edge whose "a" or "b" id is missing from the node list it emits.
C1_NoDanglingEdge ==
    /\ \A e \in DOMAIN edges : edges[e].a \in Range(nodes) /\ edges[e].b \in Range(nodes)
    /\ LET d == serialize(Canvas)
       IN  \A i \in DOMAIN d.edges :
               d.edges[i].a \in EmittedNodeIds(d) /\ d.edges[i].b \in EmittedNodeIds(d)

\* C2: in every reachable state, also after load_from of a document that
\* repeats an edge id or a node id, the connections of every node of the
\* nodes mapping are exactly the ids of the edges of the edges mapping that
\* have the node as endpoint a or b.
C2_ConnectionsMatch ==
    \A id \in DOMAIN nodes : NodeOf(id).connections = IncidentEdges(nodes[id])

\* What a deletion of the selected node n must leave behind in canvas r:
\* n's id in no key of nodes, on no endpoint of an edge, and no removed edge
\* listed by its other endpoint.
Cascaded(r, n) ==
    /\ heap[n].id \notin DOMAIN r.nodes
    /\ \A e \in DOMAIN r.edges :
            r.heap[r.edges[e].a].id # heap[n].id /\ r.heap[r.edges[e].b].id # heap[n].id
    /\ \A e \in DOMAIN edges \ DOMAIN r.edges :
            \A h \in {edges[e].a, edges[e].b} \ {n} : e \notin r.heap[h].connections

\* C3: from every reachable state with a selected node n, the Delete key and
\* the Delete Selected Node command both leave a diagram in which n's id is
\* absent from nodes, no edge has n's id as an endpoint, and the other
\* endpoint of every removed edge no longer lists that edge.
C3_DeleteCascades ==
    selected_item # None =>
        /\ Cascaded(on_delete_key(Canvas), selected_item)
        /\ Cascaded(delete_selected_node(Canvas), selected_item)

\* C4: no edge of the edges mapping is a self-loop in any reachable state,
\* the state right after load_from of an arbitrary document included.
C4_NoSelfLoop ==
    \A e \in DOMAIN edges : edges[e].a # edges[e].b

\* The diagram of canvas r is the diagram of the canvas: the same node ids
\* with the same x, y, text, width and height, the same edge ids with the
\* same endpoint ids.
SameDiagram(r) ==
    /\ DOMAIN r.nodes = DOMAIN nodes
    /\ \A id \in DOMAIN nodes :
            NodeSerialize(r.heap[r.nodes[id]]) = NodeSerialize(NodeOf(id))
    /\ DOMAIN r.edges = DOMAIN edges
    /\ \A e \in DOMAIN edges : EdgeSerialize(r, e) = EdgeSerialize(Canvas, e)

\* C5: round trip: for every diagram the editor reaches, load_from of its
\* serialize() rebuilds the same node ids with the same x, y, text, width
\* and height and the same edges (id, a, b).  Save writes serialize() as
\* the body and opening the map applies load_from to that body, so the
\* reload from the store is this same composition.
C5_RoundTrip ==
    CanLoadFrom(Canvas, serialize(Canvas)) =>
        SameDiagram(load_from(Canvas, serialize(Canvas)))

\* The ids of the nodes a document lists.
ListedNodeIds(d) == {d.nodes[i].id : i \in DOMAIN d.nodes}

\* Edge i of document d names two nodes the document lists.
Resolves(d, i) == d.edges[i].a \in ListedNodeIds(d) /\ d.edges[i].b \in ListedNodeIds(d)

\* A listed node is on the canvas: under its id, or under a generated one
\* when the document gives it none.
NodeLoaded(nd) ==
    IF nd.id # None
    THEN nd.id \in DOMAIN nodes /\ NodeSerialize(NodeOf(nd.id)) = nd
    ELSE \E id \in DOMAIN nodes : [NodeSerialize(NodeOf(id)) EXCEPT !.id = None] = nd

\* Edge e of the canvas is the listed edge ed: its id (a generated one when
\* the document gives none) and its endpoints.
EdgeLoaded(e, ed) ==
    IF ed.id # None
    THEN e = ed.id /\ EdgeSerialize(Canvas, e) = ed
    ELSE [EdgeSerialize(Canvas, e) EXCEPT !.id = None] = ed

\* The canvas holds the document d the way C6 tells: every listed node,
\* every edge that resolves with its own id and endpoints, and no other edge.
LoadedAsListed(d) ==
    /\ \A i \in DOMAIN d.nodes : NodeLoaded(d.nodes[i])
    /\ \A i \in DOMAIN d.edges :
            Resolves(d, i) => \E e \in DOMAIN edges : EdgeLoaded(e, d.edges[i])
    /\ \A e \in DOMAIN edges :
            \E i \in DOMAIN d.edges : Resolves(d, i) /\ EdgeLoaded(e, d.edges[i])

Workspace(u) == Keys(index[u].maps) \cup DOMAIN bodies[u]

\* C7: no diagram is shared between accounts: after any sequence of login,
\* register, logout, New Map, edit, Save and Delete, a map id with an index
\* entry or a body in one account's workspace has none in another's.
C7_NoSharedDiagram ==
    \A u \in Users, v \in Users : u # v => Workspace(u) \cap Workspace(v) = {}

\* C8: once map id d was deleted from an account, in every later state of
\* the session d has no body and no index entry there, and the list shown
\* to that account does not contain d.
C8_DeletedStaysDeleted ==
    \A p \in deleted :
        /\ p[2] \notin Workspace(p[1])
        /\ current_user = p[1] => p[2] \notin Range(maps_list)

\* Connecting mode: the canvas's "<Button-1>" is bound to finish_connection.
Connecting(c) == c.button1 = "finish_connection"

\* Idle: on_single is back on "<Button-1>", "<Motion>" is unbound and no
\* provisional line is left.
Idle(c) == c.button1 = "on_single" /\ ~c.motion /\ c.temp_line = "none"

\* Canvas r is the canvas plus exactly one edge from s to t, listed by both.
OneEdgeAdded(r, s, t) ==
    /\ r.nodes = nodes
    /\ \E e \in DOMAIN r.edges \ DOMAIN edges :
            /\ DOMAIN r.edges = DOMAIN edges \cup {e}
            /\ \A k \in DOMAIN edges : r.edges[k] = edges[k]
            /\ r.edges[e].a = s /\ r.edges[e].b = t
            /\ e \in r.heap[s].connections /\ e \in r.heap[t].connections

\* C9: in Connecting mode with source node s selected, a left click on a
\* node t of the diagram other than s adds exactly one edge (s, t), lists it
\* in the connections of both, removes the provisional line and leaves the
\* canvas Idle.
C9_ConnectCreatesEdge ==
    \A t \in Range(nodes) \cap drawn, l \in BOOLEAN :
        (/\ Connecting(Canvas)
         /\ selected_item \in Range(nodes)
         /\ t # selected_item
         /\ CanPress(Canvas, t, l))
            => LET r == press(Canvas, t, l)
               IN  OneEdgeAdded(r, selected_item, t) /\ Idle(r)

\* Canvas r has the nodes, the edges and the connections of the canvas.
GraphUnchanged(r) ==
    /\ r.nodes = nodes
    /\ r.edges = edges
    /\ \A h \in Range(nodes) : r.heap[h].connections = heap[h].connections

\* C10: in Connecting mode a left click on the source node or on empty
\* surface changes no node, edge or connections set, removes the
\* provisional line and leaves the canvas Idle; and every left click
\* received in Connecting mode ends Connecting mode.
C10_ClickEndsConnecting ==
    \A t \in drawn \cup {None}, l \in BOOLEAN :
        (Connecting(Canvas) /\ CanPress(Canvas, t, l))
            => LET r == press(Canvas, t, l)
               IN  /\ ~Connecting(r)
                   /\ (t = None \/ t = selected_item) => GraphUnchanged(r) /\ Idle(r)

\* Every node and every edge of document d carries an id, and no id is
\* listed twice.
WellKeyed(d) ==
    /\ \A i \in DOMAIN d.nodes : d.nodes[i].id # None
    /\ \A i \in DOMAIN d.edges : d.edges[i].id # None
    /\ \A i \in DOMAIN d.nodes, j \in DOMAIN d.nodes : i # j => d.nodes[i].id # d.nodes[j].id
    /\ \A i \in DOMAIN d.edges, j \in DOMAIN d.edges : i # j => d.edges[i].id # d.edges[j].id

C11_DeleteKeyToIdle ==
    selected_item \in Range(nodes) =>
        LET r == on_delete_key(Canvas)
        IN  /\ Cascaded(r, selected_item)
            /\ r.selected_item = None
            /\ ~Connecting(r) /\ ~r.motion

\* Canvas r is the canvas plus exactly one node, new in id and object, of
\* the default size and text and with no connections; every node and edge
\* of the canvas is as it was.
OneNodeAdded(r) ==
    /\ r.edges = edges
    /\ \A id \in DOMAIN nodes :
            id \in DOMAIN r.nodes /\ r.nodes[id] = nodes[id] /\ r.heap[nodes[id]] = NodeOf(id)
    /\ \E id \in DOMAIN r.nodes \ DOMAIN nodes :
            /\ DOMAIN r.nodes = DOMAIN nodes \cup {id}
            /\ r.nodes[id] \notin DOMAIN heap
            /\ r.heap[r.nodes[id]].id = id
            /\ r.heap[r.nodes[id]].width = NodeWidth
            /\ r.heap[r.nodes[id]].height = NodeHeight
            /\ r.heap[r.nodes[id]].text = PlaceholderText
            /\ r.heap[r.nodes[id]].connections = {}

\* The node of canvas r that the canvas does not hold is r's selection.
NewNodeSelected(r) ==
    \E id \in DOMAIN r.nodes \ DOMAIN nodes : r.selected_item = r.nodes[id]

\* C12: in Idle a double click on empty surface adds exactly one node with
\* a fresh id, size 160x52, the placeholder text and no connections, leaves
\* the existing nodes and edges unchanged, selects the new node and leaves
\* the canvas Idle.
C12_DoubleClickCreatesSelected ==
    \A p \in Points :
        (Idle(Canvas) /\ CanNodeInit(press(Canvas, None, FALSE), None, EmptyDoc))
            => LET r == double_press(press(Canvas, None, FALSE), None, FALSE, p[1], p[2])
               IN  OneNodeAdded(r) /\ NewNodeSelected(r) /\ Idle(r)

\* ------------------------------------------------------------ reports
\* What a handler writes to the log panel (app.log), as the sequence of its
\* messages, each known by its wording without the ids.
\* MindMapCanvas.delete_node (lines 265-275) with delete_edge (line 289).
delete_node_log(c, h) ==
    [i \in 1 .. Cardinality(c.heap[h].connections \cap DOMAIN c.edges) |-> "Deleted edge"]
        \o <<"Deleted node">>

\* MindMapApp.canvas_start_connection (lines 690-694) with
\* MindMapCanvas.start_connection (line 223).
canvas_start_connection_log(c) ==
    IF c.selected_item = None
    THEN <<"Select a node first (left-click).">>
    ELSE <<"Connection mode: click target node to connect.">>

\* MindMapApp.delete_selected_node (lines 696-701).
delete_selected_node_log(c) ==
    IF c.selected_item = None
    THEN <<"No node selected to delete.">>
    ELSE delete_node_log(c, c.selected_item)

\* MindMapCanvas.on_delete_key (lines 291-294): no else branch.
on_delete_key_log(c) ==
    IF c.selected_item # None THEN delete_node_log(c, c.selected_item) ELSE <<>>

\* C13: with no selection, Start Connection, Delete Selected Node and the
\* Delete key each leave nodes, edges, the selection and the interaction
\* mode (the whole canvas) unchanged, and each reports it.
C13_NoSelectionReportedNoOp ==
    selected_item = None =>
        /\ canvas_start_connection(Canvas) = Canvas
        /\ canvas_start_connection_log(Canvas) # <<>>
        /\ delete_selected_node(Canvas) = Canvas
        /\ delete_selected_node_log(Canvas) # <<>>
        /\ on_delete_key(Canvas) = Canvas
        /\ on_delete_key_log(Canvas) # <<>>

\* Node objects are as in the canvas, but for the x and y of object h.
OnlyMoved(r, h) ==
    /\ DOMAIN r.heap = DOMAIN heap
    /\ \A k \in DOMAIN heap \ {h} : r.heap[k] = heap[k]
    /\ [r.heap[h] EXCEPT !.x = heap[h].x, !.y = heap[h].y] = heap[h]

\* An editor session that creates, selects, connects and drags nodes.
NextDrag ==
    \/ \E t \in drawn \cup {None} : Click(t, FALSE)
    \/ \E t \in drawn \cup {None} : DoubleClick(t, FALSE, <<90, 36>>)
    \/ StartConnection
    \/ Motion
    \/ \E h \in drawn, p \in Points : Drag(h, p)

SpecDrag == Init /\ [][NextDrag]_vars

\* C14: dragging a node changes only that node's x and y: the node ids,
\* every node's text and size, every other node's position, the edges and
\* their endpoints are unchanged, and serialize() emits the same edge list
\* after the move as before it.
C14_DragMovesOnlyNode ==
    \A h \in drawn, p \in Points :
        (selected_item = h /\ button1 = "on_single")
            => LET r == NodeOnDrag(Canvas, h, p[1], p[2])
               IN  /\ OnlyMoved(r, h)
                   /\ r.nodes = nodes
                   /\ r.edges = edges
                   /\ serialize(r).edges = serialize(Canvas).edges

\* A node with an edge has been dragged away from where it was created.
C14_Witness ==
    \E id \in DOMAIN nodes :
        /\ NodeOf(id).x # 90 - HalfWidth
        /\ NodeOf(id).connections # {}
        /\ IncidentEdges(nodes[id]) # {}

\* One account and its index over time: New Map, Save, the two ways to
\* open, Delete, logout and login, with the clock advancing and a document
\* lying outside the workspace.
NextMeta ==
    \/ Register("u1")
    \/ Login("u1")
    \/ Logout
    \/ NewMap(901)
    \/ SaveMap(902)
    \/ \E r \in DOMAIN maps_list : OpenSelectedMap(r)
    \/ \E r \in DOMAIN maps_list : DeleteSelectedMap(r)
    \/ \E f \in Openable : OpenMapDialog(f[1], f[2])
    \/ Tick

SpecMeta == InitOpen /\ [][NextMeta]_vars

\* The index of the logged-in account before and after a step.
IndexBefore == load_user_maps_index(index, current_user)
IndexAfter == load_user_maps_index(index', current_user)

\* C15: every save of diagram d sets the modified stamp of d's index entry
\* to the time of the save, and leaves the created stamp of an entry that
\* existed before the save as it was, whichever way d became the current
\* diagram.
C15_SaveStamps ==
    [][SaveMap(902) =>
        LET d == current_map_id'
        IN  /\ d \in Keys(IndexAfter)
            /\ Get(IndexAfter, d)["modified"] = clock
            /\ d \in Keys(IndexBefore) =>
                    Get(IndexAfter, d)["created"] = Get(IndexBefore, d)["created"]]_vars

\* C16: a save of a diagram d whose index entry has title T leaves the
\* index entry of d with title T.
C16_TitleKept ==
    [][SaveMap(902) =>
        LET d == current_map_id'
        IN  (d \in Keys(IndexBefore) /\ "title" \in DOMAIN Get(IndexBefore, d)) =>
                /\ "title" \in DOMAIN Get(IndexAfter, d)
                /\ Get(IndexAfter, d)["title"] = Get(IndexBefore, d)["title"]]_vars

\* One account and the list of its maps: Save of new and of open diagrams,
\* the file dialog, Delete, logout and login, with the clock advancing.
NextList ==
    \/ Register("u1")
    \/ Login("u1")
    \/ Logout
    \/ SaveMap(902)
    \/ \E r \in DOMAIN maps_list : DeleteSelectedMap(r)
    \/ \E f \in Openable : OpenMapDialog(f[1], f[2])
    \/ Tick

SpecList == InitWith(DocName :> EmptyDoc) /\ [][NextList]_vars

\* The modified stamp of the index entry of the map shown in row i.
RowModified(i) == ModifiedKey(Get(IndexBefore, maps_list[i]))

\* C17: the list shown for the logged-in account holds exactly the entries
\* of that account's index, each once, and a row with a strictly later
\* modified stamp comes before a row with an earlier one.
C17_ListSorted ==
    current_user # NoUser =>
        /\ Range(maps_list) = Keys(IndexBefore)
        /\ Len(maps_list) = Len(IndexBefore)
        /\ \A i \in DOMAIN maps_list, j \in DOMAIN maps_list :
                RowModified(i) > RowModified(j) => i < j

\* Two maps are listed, the one written last to the index modified later
\* and shown first.
C17_Witness ==
    /\ current_user # NoUser
    /\ Len(maps_list) = 2
    /\ Len(IndexBefore) = 2
    /\ RowModified(1) > RowModified(2)
    /\ IndexBefore[2][1] = maps_list[1]

\* One account, its workspace and the rows of its list: New Map, Save and
\* open or delete from the list, with a diagram of at most one node; the
\* other account never registers.
NextRows ==
    \/ DOMAIN nodes = {} /\ DoubleClick(None, FALSE, <<90, 36>>)
    \/ Register("u1")
    \/ Login("u1")
    \/ Logout
    \/ NewMap(901)
    \/ SaveMap(901)
    \/ \E r \in DOMAIN maps_list : OpenSelectedMap(r)
    \/ \E r \in DOMAIN maps_list : DeleteSelectedMap(r)
    \/ Tick

SpecRows == Init /\ [][NextRows]_vars

\* What load_map tells the user: the error dialog of line 607, or the log
\* line of line 614.
load_map_report(map_id) ==
    IF ~HasMapFile(current_user, map_id) THEN <<"Map file missing.">> ELSE <<"Loaded map">>

\* C18: opening a listed diagram that has no body in the account's
\* workspace is reported and changes nothing: the canvas, the current
\* diagram id, the current metadata and the store are what they were.
C18_MissingBodyNoOp ==
    [][\A r \in DOMAIN maps_list :
          (~HasMapFile(current_user, maps_list[r]) /\ OpenSelectedMap(r))
              => UNCHANGED vars /\ load_map_report(maps_list[r]) # <<>>]_vars

\* A row of the list has no body while a diagram without a current id is
\* on the canvas.
C18_Witness ==
    /\ current_user # NoUser
    /\ \E r \in DOMAIN maps_list : ~HasMapFile(current_user, maps_list[r])
    /\ current_map_id = None
    /\ DOMAIN nodes # {}

\* C19: ensure_user_folders leaves the index of a workspace that exists as
\* it is (it never touches a body), gives a workspace that does not exist an
\* empty index and leaves the other workspaces alone, and calling it twice
\* gives what calling it once gives.
C19_EnsureIdempotent ==
    \A u \in Users :
        LET once == ensure_user_folders(index, u)
        IN  /\ ensure_user_folders(once, u) = once
            /\ index[u].exists => once = index
            /\ ~index[u].exists => once[u] = [exists |-> TRUE, maps |-> <<>>]
            /\ \A v \in Users \ {u} : once[v] = index[v]
            /\ load_user_maps_index(once, u) = load_user_maps_index(index, u)

\* One account has a map with a body in its index, the other has no
\* workspace yet.
C19_Witness ==
    \E u \in Users, v \in Users :
        /\ index[u].exists /\ index[u].maps # <<>> /\ DOMAIN bodies[u] # {}
        /\ ~index[v].exists

\* Canvas r has the Node objects, the nodes, the edges and the serialize()
\* output of the canvas.
ModelUntouched(r) ==
    /\ r.heap = heap
    /\ r.nodes = nodes
    /\ r.edges = edges
    /\ serialize(r) = serialize(Canvas)

\* C20: the provisional line is no part of the graph model: Start
\* Connection and every pointer motion in Connecting mode leave the nodes,
\* the edges, every connections set and the serialize() output as they
\* were, and whenever the canvas is Idle (on_single on "<Button-1>",
\* "<Motion>" unbound) no provisional line is on the canvas.
C20_ProvisionalLineApart ==
    /\ ModelUntouched(canvas_start_connection(Canvas))
    /\ motion => ModelUntouched(follow_mouse(Canvas))
    /\ (button1 = "on_single" /\ ~motion) => temp_line # "live"

\* Connecting mode with the provisional line drawn, in a diagram that has
\* an edge.
C20_Witness ==
    /\ Connecting(Canvas) /\ motion
    /\ temp_line = "live"
    /\ DOMAIN edges # {}


\* C21: whenever "<Motion>" is bound to follow_mouse (Connecting mode) a
\* source node is chosen: selected_item is not None and is a node held in
\* nodes, so follow_mouse can draw the provisional line from its center.
C21_ConnectingHasSource ==
    motion => (selected_item # None /\ selected_item \in Range(nodes))


\* The index entry of diagram id as load_user_maps_index finds it in the
\* store p, and whether p holds the body this save writes.
EntryAt(p, id) ==
    LET idx == load_user_maps_index(p.index, current_user)
    IN  IF id \in Keys(idx) THEN <<Get(idx, id)>> ELSE <<>>

BodyWrittenAt(p, id) ==
    /\ id \in DOMAIN p.bodies[current_user]
    /\ p.bodies[current_user][id] = serialize(Canvas)

\* C22: within a save the body is written before the index: at every point
\* of the save where the disk can be left, if the diagram's index entry is
\* no longer what it was before the save, the body of this save is on disk.
C22_BodyBeforeIndex ==
    (current_user # NoUser /\ (current_map_id = None => MapUuids \ UsedMapIds # {})) =>
        \A t \in Titles :
            LET w == save_map_writes(t)
            IN  \A k \in DOMAIN w :
                    EntryAt(w[k], save_map_id) # EntryAt(w[1], save_map_id)
                        => BodyWrittenAt(w[k], save_map_id)

\* A save is about to replace a body by a different diagram and to give
\* the entry a later modified stamp.
C22_Witness ==
    /\ current_user # NoUser
    /\ current_map_id # None
    /\ current_map_id \in DOMAIN bodies[current_user]
    /\ ~BodyWrittenAt([index |-> index, bodies |-> bodies], current_map_id)
    /\ LET w == save_map_writes(901)
       IN  /\ EntryAt(w[1], current_map_id) # <<>>
           /\ EntryAt(w[Len(w)], current_map_id) # EntryAt(w[1], current_map_id)


\* New Map, Save, opening a row, Delete on a row, or the file dialog, as a
\* step that changes some account's index or bodies.
StoreCommand ==
    /\ \/ \E t \in Titles : NewMap(t)
       \/ \E t \in Titles : SaveMap(t)
       \/ \E r \in DOMAIN maps_list : OpenSelectedMap(r)
       \/ \E r \in DOMAIN maps_list : DeleteSelectedMap(r)
       \/ \E f \in Openable : OpenMapDialog(f[1], f[2])
    /\ (index' # index \/ bodies' # bodies)

\* C23: while no account is logged in the Document Store is not touched:
\* the list holds no row that open or Delete could act on, and New Map,
\* Save, open, load and Delete cannot change any account's index or bodies.
C23_NoStoreCallLoggedOut ==
    current_user = NoUser =>
        /\ maps_list = <<>>
        /\ ~ENABLED StoreCommand

\* Nobody is logged in, an account has a listed diagram with a body, and a
\* node is on the canvas.
C23_Witness ==
    /\ current_user = NoUser
    /\ \E u \in Users : index[u].maps # <<>> /\ DOMAIN bodies[u] # {}
    /\ Openable # {}
    /\ DOMAIN nodes # {}


\* What the edge loop of load_from (lines 332-337) writes to the log: the
\* loop calls app.log in neither branch.
RECURSIVE load_edges_log(_, _, _)
load_edges_log(id_map, data, i) ==
    IF i > Len(data.edges)
    THEN <<>>
    ELSE LET ed == data.edges[i]
         IN  IF ed.a \in DOMAIN id_map /\ ed.b \in DOMAIN id_map
             THEN <<>> \o load_edges_log(id_map, data, i + 1)
             ELSE <<>> \o load_edges_log(id_map, data, i + 1)

\* MindMapCanvas.load_from (lines 315-337): clear and the node loop log
\* nothing.
load_from_log(c, data) ==
    load_edges_log(load_nodes(Collect(clear(c)), EmptyMap, data, 1).id_map, data, 1)

\* MindMapApp.open_map_dialog (lines 635-657), a file chosen and loaded.
open_map_dialog_log(c, data) == load_from_log(c, data) \o <<"Opened map from">>

\* The edge entries of data that load_from skips (line 335 false).
DroppedEdges(c, data) ==
    LET id_map == load_nodes(Collect(clear(c)), EmptyMap, data, 1).id_map
    IN  {i \in DOMAIN data.edges :
            data.edges[i].a \notin DOMAIN id_map \/ data.edges[i].b \notin DOMAIN id_map}

\* C24: a load that drops an edge whose endpoint does not resolve reports
\* the drop: load_from writes a message for it, so the log of the load is
\* more than the line every load ends with.
C24_DropReported ==
    current_user # NoUser =>
        \A f \in Openable :
            (CanLoadFrom(Canvas, f[2]) /\ DroppedEdges(Canvas, f[2]) # {})
                => /\ load_from_log(Canvas, f[2]) # <<>>
                   /\ open_map_dialog_log(Canvas, f[2]) # <<"Opened map from">>


\* C25: delete_node called again on the Node object it has just deleted
\* changes nothing: the node's id is gone from nodes after the first call,
\* and the second call leaves nodes, edges and the connections of every
\* other node as the first call left them.
C25_DeleteNodeIdempotent ==
    \A h \in DOMAIN heap :
        LET once == delete_node(Canvas, h)
            twice == delete_node(once, h)
        IN  /\ heap[h].id \notin DOMAIN once.nodes
            /\ twice.nodes = once.nodes
            /\ twice.edges = once.edges
            /\ \A g \in DOMAIN once.heap \ {h} :
                    twice.heap[g].connections = once.heap[g].connections

\* A node of the diagram with two edges to another node of the diagram.
C25_Witness ==
    \E h \in Range(nodes), g \in Range(nodes) :
        /\ h # g
        /\ Cardinality(IncidentEdges(h) \cap IncidentEdges(g)) = 2
        /\ Cardinality(heap[h].connections) = 2


\* C26: in Idle a left click on empty surface (no item under the pointer)
\* clears the selection and changes nothing else of the canvas: nodes,
\* edges, connections and the bindings are what they were, and a Delete
\* key, a Delete Selected Node or a Start Connection that follows changes
\* nothing.
C26_EmptyClickClearsSelection ==
    Idle(Canvas) =>
        LET r == press(Canvas, None, FALSE)
        IN  /\ r.selected_item = None
            /\ r = [Canvas EXCEPT !.selected_item = None]
            /\ GraphUnchanged(r) /\ Idle(r)
            /\ on_delete_key(r) = r
            /\ delete_selected_node(r) = r
            /\ canvas_start_connection(r) = r

\* Idle, with a node selected that has an edge.
C26_Witness ==
    /\ Idle(Canvas)
    /\ selected_item \in Range(nodes)
    /\ IncidentEdges(selected_item) # {}


\* C27: the selection is always valid: selected_item is None or a Node
\* object held in nodes, also after the canvas was cleared or reloaded.
C27_SelectionValid ==
    selected_item = None \/ selected_item \in Range(nodes)


\* C28: between completed operations index and bodies agree: every
\* diagram id with an entry in an account's index has a body in that
\* account's workspace, so every row of the list can be loaded.
C28_ListedHasBody ==
    \A u \in Users : Keys(load_user_maps_index(index, u)) \subseteq DOMAIN bodies[u]

====
